---- MODULE Spec2Model ----
(***************************************************************************)
(* Model of 1_ECMWF_API.py: the sequential sweep lists_by_dates ->         *)
(* download_grib_files over (date, time, file type), the remote server and *)
(* the local file system it acts on.                                       *)
(*                                                                         *)
(* Strings are sequences of text pieces; concatenation is \o.  Dates and   *)
(* hrefs are sequences of single characters, so that slicing, endswith and *)
(* basename are computed position by position as Python computes them.     *)
(***************************************************************************)
EXTENDS Integers, Sequences, FiniteSets, TLC

\* ---------------------------------------------------------------- bounds
MaxDates == 2          \* longest list of dates given on the command line

\* ---------------------------------------------------------------- strings
Min(a, b) == IF a < b THEN a ELSE b

\* Python s[i:j] for 0 <= i, with j clipped to len(s)
Slice(s, i, j) == SubSeq(s, i + 1, Min(j, Len(s)))

\* Python s.endswith(suffix)
EndsWith(s, suffix) ==
    /\ Len(s) >= Len(suffix)
    /\ SubSeq(s, Len(s) - Len(suffix) + 1, Len(s)) = suffix

\* index of the last "/" of p, 0 when there is none (str.rfind('/') + 1)
LastSlash(p) ==
    LET S == {i \in 1..Len(p) : p[i] = "/"}
    IN  IF S = {} THEN 0 ELSE CHOOSE i \in S : \A j \in S : j <= i

\* variant: the href kept whole
BasenameWhole(p) == p
\* os.path.basename (posixpath): what follows the last "/"
Basename(p) == SubSeq(p, LastSlash(p) + 1, Len(p))

\* os.path.dirname (posixpath) of a path that is not directly under "/"
Dirname(p) == SubSeq(p, 1, LastSlash(p) - 1)

\* os.path.join(a, b) (posixpath)
Join(a, b) ==
    IF Len(b) > 0 /\ b[1] = "/" THEN b
    ELSE IF a = <<>> \/ a[Len(a)] = "/" THEN a \o b
    ELSE a \o <<"/">> \o b

\* ---------------------------------------------------------------- inputs
Dates == { <<"2","0","2","4","0","3","1","1">>,
           <<"2","0","2","4","0","3","1","2">> }

DateLists == UNION { [1..n -> Dates] : n \in 1..MaxDates }

base_dir == <<"o","u","t">>

GRIB2 == <<".","g","r","i","b","2">>

Href(s) == [present |-> TRUE, value |-> s]
NoHref  == [present |-> FALSE, value |-> <<>>]

\* the anchors of the listing pages the server may serve for a published run
Listings ==
    { << Href(<<"a">> \o GRIB2), Href(<<"b",".","t","x","t">>), Href(<<"c">> \o GRIB2) >>,
      << Href(<<"x","/","a">> \o GRIB2), NoHref, Href(<<>>),
         Href(<<"c",".","G","R","I","B","2">>), Href(<<"/","/","h","/","a">> \o GRIB2) >> }

\* the page served with a status other than 200: it has anchors too
ErrorPage == << Href(<<"a">> \o GRIB2) >>

Statuses == {200, 204, 404, 500}

Responses ==
    { [status |-> 200, anchors |-> l] : l \in Listings }
        \cup { [status |-> s, anchors |-> ErrorPage] : s \in Statuses \ {200} }

\* the listing of a run the server has not published: a page without anchors
EmptyListing == [status |-> 200, anchors |-> <<>>]

\* the body streamed for the n-th file request of the run, as the chunks
\* iter_content yields: every download has a content of its own, of two chunks
\* or of one
Body(n) == [i \in 1..(1 + (n % 2)) |-> n]


\* ---------------------------------------------------------------- program text
\* the template of lists_by_dates, formatted with date, time and file_type
UrlFormat(date, time, file_type) ==
    <<"https://data.ecmwf.int/forecasts/">> \o date \o <<"/">> \o time
        \o <<"/ifs/0p25/">> \o file_type \o <<"/">>

\* variant: the slots in the order of the day
times_types_sorted ==
    << [time |-> <<"00z">>, types |-> << <<"oper">>, <<"wave">> >>],
       [time |-> <<"06z">>, types |-> << <<"scda">>, <<"scwv">> >>],
       [time |-> <<"12z">>, types |-> << <<"oper">>, <<"wave">> >>],
       [time |-> <<"18z">>, types |-> << <<"scda">>, <<"scwv">> >>] >>
\* the dict times_types, in insertion order
times_types ==
    << [time |-> <<"00z">>, types |-> << <<"oper">>, <<"wave">> >>],
       [time |-> <<"12z">>, types |-> << <<"oper">>, <<"wave">> >>],
       [time |-> <<"06z">>, types |-> << <<"scda">>, <<"scwv">> >>],
       [time |-> <<"18z">>, types |-> << <<"scda">>, <<"scwv">> >>] >>

\* date_fmt = f"{date[:4]}_{date[4:6]}_{date[6:]}"
DateFmt(date) ==
    Slice(date, 0, 4) \o <<"_">> \o Slice(date, 4, 6) \o <<"_">> \o Slice(date, 6, Len(date))

\* target_dir = os.path.join(base_dir, date_fmt, time)
TargetDir(base, date, time) == Join(Join(base, DateFmt(date)), time)

\* variant: the leaf alone
MakeDirsLeafOnly(ds, p) == ds \cup {p}
\* os.makedirs(target_dir): the leaf and every missing ancestor
MakeDirs(ds, p) ==
    ds \cup {p} \cup { SubSeq(p, 1, i - 1) : i \in {j \in 2..Len(p) : p[j] = "/"} }

\* if not os.path.exists(target_dir): os.makedirs(target_dir)
EnsureDir(ds, fs, p) ==
    IF p \in ds \/ p \in DOMAIN fs THEN ds ELSE MakeDirs(ds, p)

\* variants: any 2xx status, any status below 400
StatusOk2xx(status) == status >= 200 /\ status < 300
StatusOkBelow400(status) == status < 400
\* response.status_code == 200
StatusOk(status) == status = 200

\* variant: any href that is not empty
HrefMatchesAny(href) == href.present /\ href.value # <<>>
\* href and href.endswith('.grib2')
HrefMatches(href) ==
    /\ href.present
    /\ href.value # <<>>
    /\ EndsWith(href.value, GRIB2)

\* file_name = os.path.basename(href)
FileName(href) == Basename(href.value)

\* file_url = url + file_name
FileUrl(url, file_name) == url \o file_name

\* file_path = os.path.join(target_dir, file_name)
FilePath(dir, file_name) == Join(dir, file_name)

\* variant: mode 'ab', an existing file keeps its content
OpenAppend(fs, path) ==
    IF path \in DOMAIN fs THEN fs
    ELSE [p \in DOMAIN fs \cup {path} |-> IF p = path THEN <<>> ELSE fs[p]]
\* open(file_path, 'wb'): the file is created, or truncated when it exists
OpenWB(fs, path) ==
    [p \in DOMAIN fs \cup {path} |-> IF p = path THEN <<>> ELSE fs[p]]

\* f.write(chunk)
WriteChunk(fs, path, chunk) == [fs EXCEPT ![path] = Append(@, chunk)]

\* variant: the completion line printed after the last type only
LogAfterLinksOncePerSlot(lg, d, t, last) ==
    IF last
    THEN Append(lg, <<"All files have been downloaded for ">> \o d \o <<" at ">> \o t \o <<".">>)
    ELSE lg
\* print(f'All files have been downloaded ...') sits in the loop over types,
\* after the loop over links
LogAfterLinks(lg, d, t, last) ==
    Append(lg, <<"All files have been downloaded for ">> \o d \o <<" at ">> \o t \o <<".">>)

\* the other two print calls
FileLine(file_name) == file_name \o <<" downloaded.">>
FailedLine(url) == <<"Failed to access ">> \o url


\* ---------------------------------------------------------------- state
VARIABLES
    dates,       \* args.date
    pc,          \* the statement about to run
    di, si, ti,  \* positions of the loops over dates, times_types, types
    li,          \* position of the loop over links
    target_dir,  \* download_grib_files: target_dir
    url,         \* download_grib_files: url
    response,    \* the listing response: status_code and the anchors of its page
    cur,         \* file_name, file_url, file_path of the matched link
    r,           \* the chunks the streamed response has yet to yield
    openfile,    \* the path open for writing, <<>> when none is
    dirs,        \* file system: the directories
    files,       \* file system: path -> chunks written
    log,         \* standard output, line by line
    requests,    \* the listing URLs requested so far
    fetched,     \* the file requests of the current type: link position and URL
    served,      \* the body served by the last file request, per local path
    nfile,       \* the file requests issued so far
    published,   \* the (date, position in times_types) of the forecast run the
                 \* server has published; every other listing is an empty page
    fault        \* the exception raised, "none" when none was

vars == << dates, pc, di, si, ti, li, target_dir, url, response, cur, r, openfile,
           dirs, files, log, requests, fetched, served, nfile, published, fault >>

NoResponse == [status |-> 0, anchors |-> <<>>]
NoCur == [file_name |-> <<>>, file_url |-> <<>>, file_path |-> <<>>]

date == dates[di]
time == times_types[si].time
types == times_types[si].types

Init ==
    /\ dates \in DateLists
    /\ pc = "call"
    /\ di = 1 /\ si = 1 /\ ti = 1 /\ li = 1
    /\ target_dir = <<>>
    /\ url = <<>>
    /\ response = NoResponse
    /\ cur = NoCur
    /\ r = <<>>
    /\ openfile = <<>>
    /\ dirs = {base_dir}
    /\ files = <<>>
    /\ log = <<>>
    /\ requests = <<>>
    /\ fetched = <<>>
    /\ served = <<>>
    /\ nfile = 0
    /\ published \in Dates \X DOMAIN times_types
    /\ fault = "none"

\* variant: a handler around the call of line 81 that goes on with the next slot
UnwindCaught(kind) ==
    /\ pc' = "types"
    /\ ti' = Len(types) + 1
    /\ fault' = kind
    /\ openfile' = <<>>
    /\ UNCHANGED << di, si, li >>
\* No try/except anywhere: an exception leaves download_grib_files,
\* lists_by_dates and the script; the with blocks close what is open.
Unwind(kind) ==
    /\ pc' = "crashed"
    /\ fault' = kind
    /\ openfile' = <<>>
    /\ UNCHANGED << di, si, ti, li >>

\* lists_by_dates calls download_grib_files, which ensures target_dir (31-35)
Enter ==
    /\ pc = "call"
    /\ target_dir' = TargetDir(base_dir, date, time)
    /\ dirs' = EnsureDir(dirs, files, target_dir')
    /\ ti' = 1
    /\ pc' = "types"
    /\ UNCHANGED << dates, di, si, li, url, response, cur, r, openfile, files, log,
                    requests, fetched, served, nfile, published, fault >>

\* os.makedirs raises (permission denied, read-only file system)
EnterRaises ==
    /\ pc = "call"
    /\ TargetDir(base_dir, date, time) \notin dirs
    /\ target_dir' = TargetDir(base_dir, date, time)
    /\ Unwind("makedirs")
    /\ UNCHANGED << dates, url, response, cur, r, dirs, files, log, requests, fetched,
                    served, nfile, published >>

\* for t in types: url = ...; response = requests.get(url)  (37-39)
ListingRequest ==
    /\ pc = "types"
    /\ ti <= Len(types)
    /\ url' = UrlFormat(date, time, types[ti])
    /\ requests' = Append(requests, url')
    /\ IF published = <<date, si>>
       THEN response' \in Responses
       ELSE response' = EmptyListing
    /\ fetched' = <<>>
    /\ pc' = "status"
    /\ UNCHANGED << dates, di, si, ti, li, target_dir, cur, r, openfile, dirs, files,
                    log, served, nfile, published, fault >>

\* requests.get(url) raises (connection error, timeout)
ListingRaises ==
    /\ pc = "types"
    /\ ti <= Len(types)
    /\ url' = UrlFormat(date, time, types[ti])
    /\ requests' = Append(requests, url')
    /\ fetched' = <<>>
    /\ Unwind("listing")
    /\ UNCHANGED << dates, target_dir, response, cur, r, dirs, files, log, served,
                    nfile, published >>

\* status 200: soup.find_all('a')  (41-43)
Parse ==
    /\ pc = "status"
    /\ StatusOk(response.status)
    /\ li' = 1
    /\ pc' = "link"
    /\ UNCHANGED << dates, di, si, ti, target_dir, url, response, cur, r, openfile,
                    dirs, files, log, requests, fetched, served, nfile, published, fault >>

\* any other status: print(f'Failed to access {url}')  (60-61)
PrintFailed ==
    /\ pc = "status"
    /\ ~StatusOk(response.status)
    /\ log' = Append(log, FailedLine(url))
    /\ ti' = ti + 1
    /\ pc' = "types"
    /\ UNCHANGED << dates, di, si, li, target_dir, url, response, cur, r, openfile, dirs, files,
                    requests, fetched, served, nfile, published, fault >>

\* a link that fails the test of line 47
SkipLink ==
    /\ pc = "link"
    /\ li <= Len(response.anchors)
    /\ ~HrefMatches(response.anchors[li])
    /\ li' = li + 1
    /\ UNCHANGED << dates, pc, di, si, ti, target_dir, url, response, cur, r, openfile,
                    dirs, files, log, requests, fetched, served, nfile, published, fault >>

NewCur ==
    LET file_name == FileName(response.anchors[li])
    IN  [file_name |-> file_name,
         file_url  |-> FileUrl(url, file_name),
         file_path |-> FilePath(target_dir, file_name)]

\* a link that passes it: requests.get(file_url, stream=True)  (48-52)
FileRequest ==
    /\ pc = "link"
    /\ li <= Len(response.anchors)
    /\ HrefMatches(response.anchors[li])
    /\ cur' = NewCur
    /\ fetched' = Append(fetched, [link |-> li, file_url |-> cur'.file_url])
    /\ nfile' = nfile + 1
    /\ r' = Body(nfile')
    /\ served' = [p \in DOMAIN served \cup {cur'.file_path} |->
                     IF p = cur'.file_path THEN r' ELSE served[p]]
    /\ pc' = "open"
    /\ UNCHANGED << dates, di, si, ti, li, target_dir, url, response, openfile, dirs,
                    files, log, requests, published, fault >>

\* the file request raises
FileRequestRaises ==
    /\ pc = "link"
    /\ li <= Len(response.anchors)
    /\ HrefMatches(response.anchors[li])
    /\ cur' = NewCur
    /\ fetched' = Append(fetched, [link |-> li, file_url |-> cur'.file_url])
    /\ nfile' = nfile + 1
    /\ Unwind("download")
    /\ UNCHANGED << dates, target_dir, url, response, r, dirs, files, log, requests,
                    served, published >>

\* open(file_path, 'wb')  (53)
OpenFile ==
    /\ pc = "open"
    /\ Dirname(cur.file_path) \in dirs
    /\ files' = OpenWB(files, cur.file_path)
    /\ openfile' = cur.file_path
    /\ pc' = "write"
    /\ UNCHANGED << dates, di, si, ti, li, target_dir, url, response, cur, r, dirs,
                    log, requests, fetched, served, nfile, published, fault >>

\* open raises (no such directory, permission denied)
OpenRaises ==
    /\ pc = "open"
    /\ Unwind("open")
    /\ UNCHANGED << dates, target_dir, url, response, cur, r, dirs, files, log,
                    requests, fetched, served, nfile, published >>

\* for chunk in r.iter_content(...): f.write(chunk)  (54-55)
Write ==
    /\ pc = "write"
    /\ r # <<>>
    /\ files' = WriteChunk(files, openfile, Head(r))
    /\ r' = Tail(r)
    /\ UNCHANGED << dates, pc, di, si, ti, li, target_dir, url, response, cur, openfile,
                    dirs, log, requests, fetched, served, nfile, published, fault >>

\* the stream breaks or f.write raises (disk full)
WriteRaises ==
    /\ pc = "write"
    /\ r # <<>>
    /\ Unwind("write")
    /\ UNCHANGED << dates, target_dir, url, response, cur, r, dirs, files, log,
                    requests, fetched, served, nfile, published >>

\* the stream is exhausted: both with blocks exit
Close ==
    /\ pc = "write"
    /\ r = <<>>
    /\ openfile' = <<>>
    /\ pc' = "printfile"
    /\ UNCHANGED << dates, di, si, ti, li, target_dir, url, response, cur, r, dirs,
                    files, log, requests, fetched, served, nfile, published, fault >>

\* print(f'{file_name} downloaded.')  (57)
PrintFile ==
    /\ pc = "printfile"
    /\ log' = Append(log, FileLine(cur.file_name))
    /\ li' = li + 1
    /\ pc' = "link"
    /\ UNCHANGED << dates, di, si, ti, target_dir, url, response, cur, r, openfile, dirs,
                    files, requests, fetched, served, nfile, published, fault >>

\* the links are exhausted: print(f'All files have been downloaded ...')  (59)
PrintAll ==
    /\ pc = "link"
    /\ li > Len(response.anchors)
    /\ log' = LogAfterLinks(log, date, time, ti = Len(types))
    /\ ti' = ti + 1
    /\ pc' = "types"
    /\ UNCHANGED << dates, di, si, li, target_dir, url, response, cur, r, openfile, dirs, files,
                    requests, fetched, served, nfile, published, fault >>

\* the types are exhausted: download_grib_files returns to the loops of 79-81
Return ==
    /\ pc = "types"
    /\ ti > Len(types)
    /\ IF si < Len(times_types)
       THEN si' = si + 1 /\ di' = di /\ pc' = "call"
       ELSE IF di < Len(dates)
       THEN si' = 1 /\ di' = di + 1 /\ pc' = "call"
       ELSE si' = si /\ di' = di /\ pc' = "done"
    /\ UNCHANGED << dates, ti, li, target_dir, url, response, cur, r, openfile, dirs,
                    files, log, requests, fetched, served, nfile, published, fault >>

Next ==
    \/ Enter
    \/ EnterRaises
    \/ ListingRequest
    \/ ListingRaises
    \/ Parse
    \/ PrintFailed
    \/ SkipLink
    \/ FileRequest
    \/ FileRequestRaises
    \/ OpenFile
    \/ OpenRaises
    \/ Write
    \/ WriteRaises
    \/ Close
    \/ PrintFile
    \/ PrintAll
    \/ Return

Spec == Init /\ [][Next]_vars


\* ---------------------------------------------------------------- properties
\* What the specification says, written without the operators of the model.

\* the eight (slot, product type) pairs of one date, in the order claimed
SweepOrder ==
    << <<"00z", "oper">>, <<"00z", "wave">>, <<"12z", "oper">>, <<"12z", "wave">>,
       <<"06z", "scda">>, <<"06z", "scwv">>, <<"18z", "scda">>, <<"18z", "scwv">> >>

PerDate == Len(SweepOrder)

\* date and slot of the k-th triple of the sweep, and its listing URL
KthDate(k) == dates[((k - 1) \div PerDate) + 1]
KthSlot(k) == SweepOrder[((k - 1) % PerDate) + 1][1]
KthType(k) == SweepOrder[((k - 1) % PerDate) + 1][2]
KthUrl(k) ==
    <<"https://data.ecmwf.int/forecasts/">> \o KthDate(k) \o <<"/", KthSlot(k), "/ifs/0p25/",
      KthType(k), "/">>

\* base_dir/YYYY_MM_DD/slot
DateDirOf(d) ==
    base_dir \o <<"/", d[1], d[2], d[3], d[4], "_", d[5], d[6], "_", d[7], d[8]>>
DirOf(d, slot) == DateDirOf(d) \o <<"/", slot>>

IsFileLine(line) == line[Len(line)] = " downloaded."
IsAllLine(line) == line[1] = "All files have been downloaded for "
IsFailedLine(line) == line[1] = "Failed to access "
IsSummary(line) == IsAllLine(line) \/ IsFailedLine(line)

FileLines == Cardinality({i \in 1..Len(log) : IsFileLine(log[i])})
Summaries == Cardinality({i \in 1..Len(log) : IsSummary(log[i])})

\* the requests made so far are the first triples of the sweep, all of them
\* when the sweep has returned
C1_Order ==
    /\ Len(requests) <= PerDate * Len(dates)
    /\ \A k \in 1..Len(requests) : requests[k] = KthUrl(k)
    /\ pc = "done" => Len(requests) = PerDate * Len(dates)
\* a step that issues a listing request starts from a state with nothing pending
C1_Sequential ==
    requests' # requests =>
        /\ openfile = <<>>
        /\ r = <<>>
        /\ FileLines = nfile
        /\ files = served
        /\ Summaries = Len(requests)
\* C1: without a fault the sweep issues exactly 8 * n listing requests, date by
\* date in the order given, slots 00z, 12z, 06z, 18z, two product types each;
\* and a listing request is issued only when every earlier triple is finished:
\* no file is open, no stream is pending, every file request made has had its
\* completion printed and every earlier listing has had its summary line.
C1_SweepOrder == []C1_Order /\ [][C1_Sequential]_vars
C1_Witness ==
    /\ pc = "done"
    /\ Len(dates) = 2
    /\ dates[1] # dates[2]
    /\ Len(requests) = 16
    /\ nfile >= 2

\* download_grib_files is running, past the lines that ensure target_dir
InCall == pc \in {"types", "status", "link", "open", "write", "printfile"}
\* C2: while download_grib_files runs for a (date, slot), from before its first
\* listing request on, base_dir/reformat(date)/slot and its parents exist; the
\* file open for writing lies in it, and every file written lies in a
\* directory that exists.
C2_DirBeforeWrite ==
    /\ InCall =>
          /\ DirOf(date, time[1]) \in dirs
          /\ DateDirOf(date) \in dirs
          /\ base_dir \in dirs
    /\ openfile # <<>> =>
          /\ pc = "write"
          /\ Len(openfile) > Len(DirOf(date, time[1])) + 1
          /\ SubSeq(openfile, 1, Len(DirOf(date, time[1])) + 1) = DirOf(date, time[1]) \o <<"/">>
    /\ \A p \in DOMAIN files :
          \E d \in dirs : Len(p) > Len(d) + 1 /\ SubSeq(p, 1, Len(d) + 1) = d \o <<"/">>
C2_Witness ==
    /\ pc = "write"
    /\ files[openfile] # <<>>
    /\ di = 2
    /\ dates[1] = dates[2]
    /\ DirOf(date, time[1]) \in dirs

\* the step taken from a listing response whose status is not 200
C3_Step ==
    (pc = "status" /\ response.status # 200) =>
        /\ log' = Append(log, <<"Failed to access ">> \o KthUrl(Len(requests)))
        /\ nfile' = nfile
        /\ fetched' = <<>> /\ fetched = <<>>
        /\ files' = files
        /\ openfile' = <<>>
        /\ pc' = "types"
        /\ << di', si', ti' >> = << di, si, ti + 1 >>
        /\ fault' = "none"
\* C3: a listing status other than 200 is followed by the failure line naming
\* the listing URL and by the next product type, with no file request, no
\* write and no exception.
C3_ListingFailure == [][C3_Step]_vars
C3_Witness ==
    /\ pc = "status"
    /\ ti = 2
    /\ response.status = 200
    /\ log # <<>>
    /\ log[Len(log)] = <<"Failed to access ">> \o KthUrl(Len(requests) - 1)
    /\ published = <<date, si>>
    /\ nfile = 0


\* C4: no early termination: when the run is over, by returning or after a
\* failure while fetching a triple (the listing request, a file request, open
\* or a write), every one of the 8 * |dates| triples has been attempted.
C4_NoEarlyTermination ==
    (pc = "done" \/ (pc = "crashed" /\ fault \in {"listing", "download", "open", "write"}))
        => Len(requests) = PerDate * Len(dates)

\* the href is present and its last six characters are ".grib2"
EndsInGrib2(h) ==
    /\ h.present
    /\ Len(h.value) >= 6
    /\ << h.value[Len(h.value) - 5], h.value[Len(h.value) - 4], h.value[Len(h.value) - 3],
          h.value[Len(h.value) - 2], h.value[Len(h.value) - 1], h.value[Len(h.value)] >>
          = <<".", "g", "r", "i", "b", "2">>
\* the anchors the loop over links has reached
LinksSeen == IF pc = "link" THEN li - 1 ELSE li
\* C5: after a listing answered 200, the file requests of the triple are those
\* of the anchors seen so far whose href is present and ends with ".grib2",
\* one each and in document order; all of them once the links are exhausted.
C5_Downloads ==
    /\ pc = "status" => fetched = <<>>
    /\ (pc \in {"link", "open", "write", "printfile"} \/ (pc = "crashed" /\ fault \in {"download", "open", "write"})) =>
          /\ { fetched[i].link : i \in 1..Len(fetched) }
                = { i \in 1..LinksSeen : EndsInGrib2(response.anchors[i]) }
          /\ \A i, j \in 1..Len(fetched) : i < j => fetched[i].link < fetched[j].link
C5_Witness ==
    /\ pc = "link"
    /\ li = 4
    /\ Len(response.anchors) = 3
    /\ response.anchors[2].value = <<"b", ".", "t", "x", "t">>
    /\ Len(fetched) = 2
    /\ fetched[1].file_url = url \o <<"a", ".", "g", "r", "i", "b", "2">>
    /\ fetched[2].file_url = url \o <<"c", ".", "g", "r", "i", "b", "2">>

\* C6: a file downloaded again into the same directory is replaced: whenever no
\* download is in flight, and so after the sweep, each path holds the body of
\* the last download made to it and nothing of an earlier one.
C6_Overwrite ==
    pc \in {"call", "types", "status", "link", "printfile", "done"} =>
        /\ DOMAIN files = DOMAIN served
        /\ \A p \in DOMAIN files : files[p] = served[p]
C6_Witness ==
    /\ pc = "done"
    /\ nfile > Cardinality(DOMAIN files)
    /\ \E p \in DOMAIN files : files[p] = Body(nfile)

\* C7, as stated: the listing is handled as a failure exactly when its status
\* is outside 200..299.
C7_FailureIffNot2xx ==
    [][pc = "status" =>
          ((pc' = "types" /\ log' = Append(log, <<"Failed to access ">> \o url))
              <=> ~(response.status >= 200 /\ response.status < 300))]_vars
\* the step taken from a listing response, by its status
C7_Step ==
    pc = "status" =>
        IF response.status = 200
        THEN pc' = "link" /\ li' = 1 /\ log' = log
        ELSE /\ pc' = "types"
             /\ log' = Append(log, <<"Failed to access ">> \o url)
             /\ nfile' = nfile
             /\ fetched' = <<>>
\* C7, amended: it is handled as a failure exactly when its status is not 200;
\* with 200 the anchors are walked from the first, with anything else,
\* 2xx included, the failure line is printed and no anchor is looked at.
C7_FailureIffNot200 == [][C7_Step]_vars
C7_Witness ==
    /\ pc = "types"
    /\ response.status = 204
    /\ \E i \in 1..Len(response.anchors) : EndsInGrib2(response.anchors[i])
    /\ log # <<>>
    /\ log[Len(log)] = <<"Failed to access ">> \o url
    /\ nfile = 0

\* a failed download has left the program stopped, its file closed
C8_Stopped ==
    fault \in {"download", "open", "write"} => (pc = "crashed" /\ openfile = <<>>)
\* no step after an exception does anything
C8_NothingAfter ==
    fault # "none" =>
        /\ requests' = requests
        /\ nfile' = nfile
        /\ files' = files
        /\ dirs' = dirs
        /\ log' = log
        /\ pc' = "crashed"
\* C8: a failure of a file request, of open or of a write ends the sweep: the
\* program is then stopped for good, with no further listing request, file
\* request, write or output, and the file under way keeps what was written.
C8_Propagates == []C8_Stopped /\ [][C8_NothingAfter]_vars
C8_Witness ==
    /\ pc = "crashed"
    /\ fault = "write"
    /\ Len(served[cur.file_path]) = 2
    /\ files[cur.file_path] = <<served[cur.file_path][1]>>
    /\ Len(requests) < PerDate * Len(dates)

\* seg is what follows the last "/" of h, all of h when it has none
IsLastSegment(seg, h) ==
    /\ Len(seg) <= Len(h)
    /\ seg = SubSeq(h, Len(h) - Len(seg) + 1, Len(h))
    /\ \A i \in 1..Len(seg) : seg[i] # "/"
    /\ Len(seg) < Len(h) => h[Len(h) - Len(seg)] = "/"
\* C9: for the anchor being downloaded, file_name is the last "/"-separated
\* segment of its href, the download URL is the listing URL followed by
\* file_name, and the file is target_dir/file_name: a direct child of the
\* directory of the current (date, slot), named *.grib2.  Anchors with the
\* same last segment get the same URL and the same file.
C9_Naming ==
    /\ pc \in {"open", "write", "printfile"} =>
          /\ IsLastSegment(cur.file_name, response.anchors[li].value)
          /\ cur.file_url = KthUrl(Len(requests)) \o cur.file_name
          /\ cur.file_path = DirOf(date, time[1]) \o <<"/">> \o cur.file_name
          /\ fetched[Len(fetched)] = [link |-> li, file_url |-> cur.file_url]
          /\ Len(cur.file_name) >= 6
          /\ SubSeq(cur.file_name, Len(cur.file_name) - 5, Len(cur.file_name))
                = <<".", "g", "r", "i", "b", "2">>
    /\ openfile # <<>> => openfile = cur.file_path
    /\ \A p \in DOMAIN files :
          /\ \E k \in 1..Len(dates) : \E slot \in {"00z", "06z", "12z", "18z"} :
                LET d == DirOf(dates[k], slot) \o <<"/">>
                IN  /\ Len(p) >= Len(d) + 6
                    /\ SubSeq(p, 1, Len(d)) = d
                    /\ \A j \in (Len(d) + 1)..Len(p) : p[j] # "/"
          /\ SubSeq(p, Len(p) - 5, Len(p)) = <<".", "g", "r", "i", "b", "2">>
C9_Witness ==
    /\ pc = "printfile"
    /\ Len(fetched) = 2
    /\ response.anchors[fetched[1].link] # response.anchors[fetched[2].link]
    /\ fetched[1].file_url = fetched[2].file_url
    /\ DOMAIN files = {cur.file_path}
    /\ files[cur.file_path] = Body(2)

\* one summary line per type iteration that has run to its end
C10_Lines ==
    Summaries = IF (InCall /\ pc # "types") \/ (pc = "crashed" /\ fault # "makedirs")
                THEN Len(requests) - 1 ELSE Len(requests)
\* what a step that prints appends, and when
C10_Print ==
    log' # log =>
        /\ Len(log') = Len(log) + 1
        /\ SubSeq(log', 1, Len(log)) = log
        /\ IsFileLine(log'[Len(log')]) \/ IsSummary(log'[Len(log')])
        /\ IsFailedLine(log'[Len(log')]) =>
              /\ response.status # 200
              /\ log'[Len(log')] = <<"Failed to access ">> \o KthUrl(Summaries + 1)
        /\ IsAllLine(log'[Len(log')]) =>
              /\ response.status = 200
              /\ log'[Len(log')]
                    = <<"All files have been downloaded for ">> \o KthDate(Summaries + 1)
                         \o <<" at ", KthSlot(Summaries + 1), ".">>
              /\ Len(log) >= Len(fetched)
              /\ \A i \in 1..Len(fetched) :
                    log[Len(log) - Len(fetched) + i]
                       = SubSeq(fetched[i].file_url, Len(url) + 1, Len(fetched[i].file_url))
                            \o <<" downloaded.">>
              /\ Len(fetched)
                    = Cardinality({i \in 1..Len(response.anchors) : EndsInGrib2(response.anchors[i])})
        /\ IsFileLine(log'[Len(log')]) =>
              /\ log'[Len(log')] = cur.file_name \o <<" downloaded.">>
              /\ openfile = <<>>
              /\ r = <<>>
              /\ files[cur.file_path] = served[cur.file_path]
\* C10: every type iteration that has run to its end has printed one summary
\* line, the k-th summary line being that of the k-th listing request: the
\* failure line with its URL, or the completion line with its date and slot.
\* The completion line is printed only for status 200 and right after the
\* per-file lines of that listing, the failure line only for another status,
\* and a per-file line only once the file is closed and holds the whole body.
C10_SummaryLines == []C10_Lines /\ [][C10_Print]_vars
C10_Witness ==
    /\ pc = "types"
    /\ ti = 3
    /\ Len(log) >= 4
    /\ IsAllLine(log[Len(log)])
    /\ IsFileLine(log[Len(log) - 1])
    /\ \E i \in 2..(Len(log) - 1) : log[i] = log[Len(log)] /\ IsFileLine(log[i - 1])
    /\ \A j \in 1..Len(dates) : j # di => dates[j] # date

====
